---- MODULE Spec2Model ----
(***************************************************************************)
(* Model of the audio-upscaler repository: the overlap-add channel         *)
(* pipeline of AudioUpscaler (core/upscaler.py), the enhancer chain        *)
(* (enhancers/spectral.py), the preset store (utils/preset_manager.py)     *)
(* and the command line front end (cli.py).                                *)
(*                                                                         *)
(* Numbers.  Samples are integers in units of 1/20, so that the target     *)
(* level 0.95 is the integer TargetLevel.  The five settings of an         *)
(* upscaler are held in tenths (intensity 1.5 is 15).  A spectrum is a     *)
(* sequence of bins [re, im]; a stage that multiplies a magnitude by a     *)
(* real gain and keeps the phase multiplies re and im by that gain, and a  *)
(* comparison of magnitudes is made on their squares, so frames of length  *)
(* 1, 2 and 4 (twiddle factors in {1, -1, i, -i}) are computed exactly.    *)
(* Every stage of one run multiplies by the same integer numerators, so    *)
(* the buffers of a run are the real buffers times one positive constant,  *)
(* which the final peak normalisation divides out.                         *)
(***************************************************************************)
EXTENDS Integers, Sequences, FiniteSets, TLC

VARIABLES
    upscaler,        \* AudioUpscaler instance: five settings and enhancer_chain
    pc,              \* position of the running call
    entry,           \* entry point of the running call
    call,            \* arguments of process_audio
    chan,            \* index of the channel being processed (1 = left)
    padded_audio,    \* _process_channel: reflect-padded channel
    enhanced_audio,  \* _process_channel: overlap-add accumulator
    i,               \* _process_channel: offset of the next frame
    nframes,         \* frames processed in the current channel
    outputs,         \* channels returned by _process_channel so far
    result,          \* value returned by process_audio / process_file
    outfile,         \* file written by process_file
    files,           \* the file system: path -> contents of each existing file
    lastop,          \* the last preset operation: its arguments and return value
    nops,            \* number of preset operations made
    config,          \* argument of create_enhancer_chain
    enhancers,       \* list returned by create_enhancer_chain
    frame,           \* argument of the last call of _process_frame / apply_enhancer_chain
    stages,          \* stages the last call of _process_frame / apply_enhancer_chain ran
                     \* (for direct calls of one enhancer: every call made so far)
    progress,        \* values passed to progress_callback in the current channel
    cli,             \* the command line invocation: its options and what it printed
    ncalls           \* number of direct calls of _process_frame / apply_enhancer_chain

\* state of a processing run (all but the upscaler)
rvars == <<pc, entry, call, chan, padded_audio, enhanced_audio, i, nframes,
           outputs, result, outfile>>

\* state of the preset store
svars == <<files, lastop, nops>>

\* state of the chain builder
cvars == <<config, enhancers>>

\* record of the last frame and of the progress reports
tvars == <<frame, stages, progress>>

\* state of the command line and of direct calls
uvars == <<cli, ncalls>>

vars == <<upscaler, rvars, svars, cvars, tvars, uvars>>

None == "None"

(***************************************************************************)
(* Bounds of the model.                                                    *)
(***************************************************************************)
MaxLen == 2
Samples == {-19, 0, 10}
StereoSamples == {0, 10}
FrameSizes == {-1, 0, 1, 2, 3, 4}
HopLengths == {-1, 0, 1, 2, 3}
SampleRates == {22050}
MaxChain == 1
MaxConfig == 3
MaxOps == 3
MaxPresetChain == 2

(***************************************************************************)
(* Program constants.                                                      *)
(***************************************************************************)
TargetLevel == 19
DefaultHopLength == 1024
AttackBoost == 2
Sensitivity == 5

(***************************************************************************)
(* Arithmetic helpers with Python / numpy semantics.                       *)
(***************************************************************************)
Abs(x) == IF x < 0 THEN -x ELSE x

Sign(x) == IF x < 0 THEN -1 ELSE IF x > 0 THEN 1 ELSE 0

Min(a, b) == IF a < b THEN a ELSE b

Max(a, b) == IF a > b THEN a ELSE b

\* Python's a // b (floor division), b # 0
PyFloorDiv(a, b) == IF b > 0 THEN a \div b ELSE (-a) \div (-b)

\* range(0, stop - step, step): the range that ends one step early
InRangeShort(k, stop, step) == IF step > 0 THEN k < stop - step ELSE k > stop - step

\* membership of i in range(0, stop, step)
InRange(k, stop, step) == IF step > 0 THEN k < stop ELSE k > stop

MaxAbs(s) == LET S == {Abs(s[k]) : k \in 1..Len(s)}
             IN  CHOOSE x \in S : \A y \in S : y <= x

Zeros(n) == [k \in 1..n |-> 0]

\* a[lo:hi] for 0 <= lo <= hi <= len(a), zero-based half-open
Slice(a, lo, hi) == [k \in 1..(hi - lo) |-> a[lo + k]]

(***************************************************************************)
(* numpy / scipy primitives used by _process_channel and _process_frame.   *)
(***************************************************************************)
\* np.pad(s, (p, p), mode='reflect'), p >= 0, len(s) >= 1: reflection of
\* period 2(n-1) about both ends; a one-sample array is extended by its edge
ReflectPad(s, p) ==
    LET n == Len(s)
        P == 2 * (n - 1)
        src(k) == IF n = 1 THEN 1
                  ELSE LET m == (k - 1 - p + p * P) % P
                       IN  IF m < n THEN m + 1 ELSE P - m + 1
    IN  [k \in 1..(n + 2 * p) |-> s[src(k)]]

\* scipy.signal.windows.hann(M) (symmetric), times 4
hann(M) ==
    CASE M = 0 -> << >>
      [] M = 1 -> <<4>>
      [] M = 2 -> <<0, 0>>
      [] M = 3 -> <<0, 4, 0>>
      [] M = 4 -> <<0, 3, 3, 0>>

\* a bin is re + im * i * sqrt(w)
Bin(re, im, w) == [re |-> re, im |-> im, w |-> w]

MagSq(b) == b.re * b.re + b.w * b.im * b.im

Scale(b, g) == Bin(b.re * g, b.im * g, b.w)

\* number of bins of np.fft.rfft of a frame of n samples
RfftLen(n) == n \div 2 + 1

\* number of samples of np.fft.irfft of m bins (n defaults to 2 (m - 1))
IrfftLen(m) == 2 * (m - 1)

\* np.fft.rfft(frame), len(frame) in 1..4; the three-sample spectrum is
\* held times 2 (its second bin is ((2a-b-c) - i sqrt(3) (b-c)) / 2)
rfft(f) ==
    CASE Len(f) = 1 -> <<Bin(f[1], 0, 1)>>
      [] Len(f) = 2 -> <<Bin(f[1] + f[2], 0, 1), Bin(f[1] - f[2], 0, 1)>>
      [] Len(f) = 3 -> <<Bin(2 * (f[1] + f[2] + f[3]), 0, 1),
                         Bin(2 * f[1] - f[2] - f[3], f[3] - f[2], 3)>>
      [] Len(f) = 4 -> <<Bin(f[1] + f[2] + f[3] + f[4], 0, 1),
                         Bin(f[1] - f[3], f[4] - f[2], 1),
                         Bin(f[1] - f[2] + f[3] - f[4], 0, 1)>>

\* np.fft.irfft(X) times its length 2 (len(X) - 1), len(X) in 2..3; the
\* imaginary parts of the first and last bin are ignored
irfft(X) ==
    CASE Len(X) = 2 -> <<X[1].re + X[2].re, X[1].re - X[2].re>>
      [] Len(X) = 3 -> <<X[1].re + 2 * X[2].re + X[3].re,
                         X[1].re - 2 * X[2].im - X[3].re,
                         X[1].re - 2 * X[2].re + X[3].re,
                         X[1].re + 2 * X[2].im - X[3].re>>

(***************************************************************************)
(* The built-in stages of _process_frame (settings in tenths).             *)
(***************************************************************************)
\* mean of the top bins [-len // 5:]; one bin for up to five bins
NoiseRegionStart(m) == m + PyFloorDiv(-m, 5) + 1

NoiseFloorReduction(X, noise_reduction) ==
    LET m == Len(X)
        floorSq == MagSq(X[NoiseRegionStart(m)])
        t == 10 + 3 * noise_reduction
        mask(k) == MagSq(X[k]) * 100 > floorSq * t * t
    IN  [k \in 1..m |-> IF mask(k) THEN X[k] ELSE Scale(X[k], 0)]

\* boost_amount = 1 + linspace(1.0, 0.1, region) * harmonics_boost on the
\* lower half, as numerator over HarmonicDen
HarmonicDen(m) == IF m \div 2 <= 1 THEN 10 ELSE 100 * (m \div 2 - 1)

HarmonicBoost(X, harmonics_boost) ==
    LET m == Len(X)
        region == m \div 2
        num(k) == IF region = 1 THEN 10 + harmonics_boost
                  ELSE 100 * (region - 1)
                       + harmonics_boost * (10 * (region - 1) - 9 * (k - 1))
    IN  [k \in 1..m |-> IF k <= region THEN Scale(X[k], num(k))
                        ELSE Scale(X[k], HarmonicDen(m))]

IntensityScaling(X, intensity) == [k \in 1..Len(X) |-> Scale(X[k], intensity)]

\* mean + (magnitude - mean) * dynamic_boost clamped at 0, times 10 len(X);
\* defined on spectra whose bins are all real and whose magnitudes are not
\* negative (magnitude = |re|)
DynamicRange(X, dynamic_boost) ==
    LET m == Len(X)
        RECURSIVE sum(_)
        sum(k) == IF k = 0 THEN 0 ELSE Abs(X[k].re) + sum(k - 1)
        total == sum(m)
        newmag(k) == Max(0, 10 * total + (m * Abs(X[k].re) - total) * dynamic_boost)
    IN  [k \in 1..m |-> Bin((IF X[k].re < 0 THEN -1 ELSE 1) * newmag(k), 0, X[k].w)]

ClarityEnhance(X) ==
    LET m == Len(X)
        mid_start == m \div 8
        mid_end == m \div 3
    IN  [k \in 1..m |-> IF mid_start < k /\ k <= mid_end THEN Scale(X[k], 12)
                        ELSE Scale(X[k], 10)]

\* one stage that ran: the spectrum it read and the spectrum it left (for a
\* call of an enhancer also its position in the chain, its class and whether
\* it had no history), or the exception it raised
StageEntry(stage, idx, name, fresh, in, out, raised) ==
    [stage |-> stage, idx |-> idx, name |-> name, fresh |-> fresh,
     in |-> in, out |-> out, raised |-> raised]

BuiltinEntry(stage, in, out) == StageEntry(stage, 0, << >>, FALSE, in, out, None)

\* the spectrum after the stages of a trace that started from X
LastOut(trace, X) == IF trace = << >> THEN X ELSE trace[Len(trace)].out

\* F(x), with x evaluated once
Let(x, F(_)) == CHOOSE y \in {F(v) : v \in {x}} : TRUE

\* the condition under which _process_frame runs a built-in stage, lines 57,
\* 63, 74 and 81 (the intensity scaling of line 71 is unconditional)
StageEnabled(stage, u) ==
    CASE stage = "noise_floor" -> u.noise_reduction > 0
      [] stage = "harmonic_boost" -> u.harmonics_boost > 0
      [] stage = "intensity" -> TRUE
      [] stage = "dynamic_range" -> u.dynamic_boost # 10
      [] stage = "clarity" -> u.clarity_enhance

\* what a built-in stage makes of the spectrum X
StageOutput(stage, X, u) ==
    CASE stage = "noise_floor" -> NoiseFloorReduction(X, u.noise_reduction)
      [] stage = "harmonic_boost" -> HarmonicBoost(X, u.harmonics_boost)
      [] stage = "intensity" -> IntensityScaling(X, u.intensity)
      [] stage = "dynamic_range" -> DynamicRange(X, u.dynamic_boost)
      [] stage = "clarity" -> ClarityEnhance(X)

\* the built-in stages with clarity enhancement before the dynamic range
\* adjustment
BuiltinOrderClarityFirst ==
    <<"noise_floor", "harmonic_boost", "intensity", "clarity", "dynamic_range">>

\* the built-in stages in the order in which _process_frame has them, lines
\* 56-85
BuiltinOrder ==
    <<"noise_floor", "harmonic_boost", "intensity", "dynamic_range", "clarity">>

\* the stages from the s-th on, run on the working spectrum X: a stage whose
\* condition is false is passed over, the others replace the working spectrum
RECURSIVE BuiltinFrom(_, _, _, _)
BuiltinFrom(s, trace, X, u) ==
    IF s > Len(BuiltinOrder) THEN trace
    ELSE IF ~StageEnabled(BuiltinOrder[s], u) THEN BuiltinFrom(s + 1, trace, X, u)
    ELSE Let(StageOutput(BuiltinOrder[s], X, u),
             LAMBDA Y : BuiltinFrom(s + 1,
                                    Append(trace, BuiltinEntry(BuiltinOrder[s], X, Y)),
                                    Y, u))

\* the built-in stages _process_frame runs on the spectrum X, lines 56-85
BuiltinTrace(X, u) == Let(X, LAMBDA x : BuiltinFrom(1, << >>, x, u))

\* the spectrum after the five built-in stages
BuiltinStages(X, u) ==
    Let(X, LAMBDA x : Let(BuiltinFrom(1, << >>, x, u), LAMBDA t : LastOut(t, x)))

(***************************************************************************)
(* Enhancers (enhancers/spectral.py).  An enhancer is its class name and,  *)
(* for the transient enhancer, the stored previous magnitudes; NoMags      *)
(* stands for Python's None.                                               *)
(***************************************************************************)
NoMags == << >>

\* class names, as the words they are made of
HarmonicEnhancer == <<"Harmonic", "Enhancer">>
SpectralWidener == <<"Spectral", "Widener">>
ExciterEnhancer == <<"Exciter", "Enhancer">>
TransientEnhancer == <<"Transient", "Enhancer">>

NewEnhancer(cls) == [name |-> cls, prev_magnitudes |-> NoMags]

AllReal(X) == \A k \in 1..Len(X) : X[k].im = 0

\* the transient mask with a bin flagged when its flux reaches the threshold
TransientMaskOkForNonStrict(X, prev, mask, sensitivity) ==
    LET m == Len(X)
        pf(k) == Max(0, Abs(X[k].re) - Abs(prev[k].re))
        RECURSIVE sum(_)
        sum(k) == IF k = 0 THEN 0 ELSE pf(k) + sum(k - 1)
    IN  IF AllReal(X) /\ AllReal(prev)
        THEN mask = {k \in 1..m : pf(k) * m * 10 >= sum(m) * (10 + 5 * sensitivity)}
        ELSE mask = 1..m

\* the bins TransientEnhancer.process boosts, lines 174-182: positive_flux >
\* threshold with threshold = mean(positive_flux) * (1 + sensitivity * 5),
\* sensitivity in tenths.  Computed when every magnitude is rational (all
\* bins real).  Otherwise the magnitudes are square roots: without positive
\* flux the threshold is 0 and no bin exceeds it; with a negative factor
\* every bin exceeds the threshold, with the factor 0 the bins of positive
\* flux do; with a positive factor any set of bins is allowed that has
\* positive flux and is small enough (the fluxes of c bins that each exceed
\* t times the mean of m fluxes sum to more than c * t / m of the total, so
\* c * t < m)
TransientMaskOkFor(X, prev, mask, sensitivity) ==
    LET m == Len(X)
        t == 10 + 5 * sensitivity
        pf(k) == Max(0, Abs(X[k].re) - Abs(prev[k].re))
        RECURSIVE sum(_)
        sum(k) == IF k = 0 THEN 0 ELSE pf(k) + sum(k - 1)
        pos == {k \in 1..m : MagSq(X[k]) > MagSq(prev[k])}
    IN  IF AllReal(X) /\ AllReal(prev)
        THEN mask = {k \in 1..m : pf(k) * m * 10 > sum(m) * t}
        ELSE IF pos = {} THEN mask = {}
        ELSE IF t < 0 THEN mask = 1..m
        ELSE IF t = 0 THEN mask = pos
        ELSE /\ mask \subseteq pos
             /\ Cardinality(mask) * t < m * 10

\* the mask of a transient enhancer made with the default sensitivity
TransientMaskOk(X, prev, mask) == TransientMaskOkFor(X, prev, mask, Sensitivity)

\* TransientEnhancer.process that stores the boosted magnitudes as history
TransientProcessStoreBoosted(e, X, mask) ==
    LET prev == e.prev_magnitudes
        boosted == [k \in 1..Len(X) |->
                       IF k \in mask THEN Scale(X[k], AttackBoost) ELSE X[k]]
    IN  IF prev = NoMags
        THEN [X |-> X, e |-> [e EXCEPT !.prev_magnitudes = X], ok |-> mask = {}, err |-> None]
        ELSE IF Len(prev) # Len(X) /\ Len(prev) # 1
        THEN [X |-> X, e |-> e, ok |-> mask = {}, err |-> "ValueError"]
        ELSE [X |-> boosted,
              e |-> [e EXCEPT !.prev_magnitudes = boosted],
              ok |-> TransientMaskOk(X, [k \in 1..Len(X) |->
                                            IF Len(prev) = 1 THEN prev[1] ELSE prev[k]], mask),
              err |-> None]

\* TransientEnhancer.process of an enhancer made with the given sensitivity
\* (tenths) and attack_boost: the enhanced spectrum and the enhancer
\* afterwards, or the exception raised.  A stored spectrum of one bin is
\* broadcast against the current one; stored and current spectra of any
\* other two different lengths cannot be subtracted (line 175) or multiplied
\* in place (line 186), and the history is left as it was
TransientProcessWith(e, X, mask, sensitivity, attack_boost) ==
    LET prev == e.prev_magnitudes
    IN  IF prev = NoMags
        THEN [X |-> X, e |-> [e EXCEPT !.prev_magnitudes = X], ok |-> mask = {}, err |-> None]
        ELSE IF Len(prev) # Len(X) /\ Len(prev) # 1
        THEN [X |-> X, e |-> e, ok |-> mask = {}, err |-> "ValueError"]
        ELSE [X |-> [k \in 1..Len(X) |->
                        IF k \in mask THEN Scale(X[k], attack_boost) ELSE X[k]],
              e |-> [e EXCEPT !.prev_magnitudes = X],
              ok |-> TransientMaskOkFor(X, [k \in 1..Len(X) |->
                                               IF Len(prev) = 1 THEN prev[1] ELSE prev[k]],
                                        mask, sensitivity),
              err |-> None]

\* TransientEnhancer.process of an enhancer made with the default parameters
TransientProcess(e, X, mask) == TransientProcessWith(e, X, mask, Sensitivity, AttackBoost)

\* HarmonicEnhancer.process: no fundamental is searched when the lower
\* region min(len // 5, 100) is empty (spectra of fewer than five bins)
HarmonicProcess(e, X) ==
    CASE Min(Len(X) \div 5, 100) = 0 -> [X |-> X, e |-> e, ok |-> TRUE, err |-> None]

EnhancerProcess(e, X, mask) ==
    CASE e.name = TransientEnhancer -> TransientProcess(e, X, mask)
      [] e.name = HarmonicEnhancer ->
            [HarmonicProcess(e, X) EXCEPT !.ok = (mask = {})]

\* the loop of apply_enhancer_chain that hands every enhancer the spectrum
\* the chain was called with
RECURSIVE ApplyFromInput(_, _, _, _)
ApplyFromInput(k, X, chain, masks) ==
    IF k > Len(chain)
    THEN [X |-> X, chain |-> chain, ok |-> TRUE, err |-> None, calls |-> << >>]
    ELSE Let(EnhancerProcess(chain[k], X, masks[k]),
             LAMBDA r :
                LET entry_k == StageEntry("enhancer", k, chain[k].name,
                                          chain[k].prev_magnitudes = NoMags, X, r.X, r.err)
                IN  IF r.err # None
                    THEN [X |-> X, chain |-> chain, ok |-> r.ok, err |-> r.err,
                          calls |-> <<entry_k>>]
                    ELSE Let(ApplyFromInput(k + 1, X, [chain EXCEPT ![k] = r.e], masks),
                             LAMBDA rest :
                                [rest EXCEPT !.ok = r.ok /\ rest.ok,
                                             !.X = IF k = Len(chain) THEN r.X ELSE rest.X,
                                             !.calls = <<entry_k>> \o rest.calls]))

\* the loop of apply_enhancer_chain from enhancer k on, lines 248-250: each
\* enhancer in list order on the result of the one before; an exception of
\* an enhancer ends the loop.  masks[k] is the set of bins enhancer k boosts
RECURSIVE ApplyFrom(_, _, _, _)
ApplyFrom(k, X, chain, masks) ==
    IF k > Len(chain)
    THEN [X |-> X, chain |-> chain, ok |-> TRUE, err |-> None, calls |-> << >>]
    ELSE Let(EnhancerProcess(chain[k], X, masks[k]),
             LAMBDA r :
                LET entry_k == StageEntry("enhancer", k, chain[k].name,
                                          chain[k].prev_magnitudes = NoMags, X, r.X, r.err)
                IN  IF r.err # None
                    THEN [X |-> X, chain |-> chain, ok |-> r.ok, err |-> r.err,
                          calls |-> <<entry_k>>]
                    ELSE Let(ApplyFrom(k + 1, r.X, [chain EXCEPT ![k] = r.e], masks),
                             LAMBDA rest :
                                [rest EXCEPT !.ok = r.ok /\ rest.ok,
                                             !.calls = <<entry_k>> \o rest.calls]))

apply_enhancer_chain(X, chain, masks) ==
    Let(<<X, chain>>, LAMBDA a : ApplyFrom(1, a[1], a[2], masks))

\* the sets of bins the enhancers of a chain can boost in a spectrum of m
\* bins: none for an enhancer that is not a transient enhancer or has no
\* history, and fewer than m / (1 + sensitivity * 5) for one that has
MaskChoices(chain, m) ==
    {masks \in [1..Len(chain) -> SUBSET (1..m)] :
        \A k \in 1..Len(chain) :
           /\ Cardinality(masks[k]) * (10 + 5 * Sensitivity) < Max(m, 1) * 10
           /\ (chain[k].name # TransientEnhancer \/ chain[k].prev_magnitudes = NoMags)
                 => masks[k] = {}}

\* _process_frame: the frame returned (times a constant of the run), the
\* enhancer chain afterwards and the stages that ran, or the exception raised
ProcessFrame(fr, u, masks) ==
    IF Len(fr) = 0
    THEN [err |-> "ValueError", frame |-> << >>, chain |-> u.enhancer_chain, ok |-> TRUE,
          stages |-> << >>]
    ELSE Let(BuiltinTrace(rfft(fr), u),
             LAMBDA builtin :
                Let(IF u.enhancer_chain # << >>
                    THEN apply_enhancer_chain(LastOut(builtin, rfft(fr)),
                                              u.enhancer_chain, masks)
                    ELSE [X |-> LastOut(builtin, rfft(fr)), chain |-> u.enhancer_chain,
                          ok |-> \A k \in DOMAIN masks : masks[k] = {},
                          err |-> None, calls |-> << >>],
                    LAMBDA r :
                       LET synthesis(err) ==
                               StageEntry("synthesis", 0, << >>, FALSE, r.X, r.X, err)
                       IN  IF r.err # None
                           THEN [err |-> r.err, frame |-> << >>, chain |-> r.chain,
                                 ok |-> r.ok, stages |-> builtin \o r.calls]
                           ELSE IF IrfftLen(Len(r.X)) = 0
                           THEN [err |-> "ValueError", frame |-> << >>, chain |-> r.chain,
                                 ok |-> r.ok,
                                 stages |-> builtin \o r.calls \o <<synthesis("ValueError")>>]
                           ELSE [err |-> None, frame |-> irfft(r.X), chain |-> r.chain,
                                 ok |-> r.ok,
                                 stages |-> builtin \o r.calls \o <<synthesis(None)>>]))

\* numpy broadcasting of two one-dimensional shapes
Broadcastable(a, b) == a = b \/ a = 1 \/ b = 1

(***************************************************************************)
(* Values of the returned channel: a finite sample num / den in sample     *)
(* units, or one of the IEEE values a division by zero produces.           *)
(***************************************************************************)
Fin(num, den) == [k |-> "fin", num |-> num, den |-> den]

NaN == [k |-> "nan", num |-> 0, den |-> 1]

Inf(sign) == [k |-> "inf", num |-> sign, den |-> 1]

\* enhanced_audio /= num_overlaps on the accumulator a
OverlapNormalize(a, num_overlaps) ==
    [k \in 1..Len(a) |->
        IF num_overlaps # 0 THEN Fin(a[k], num_overlaps)
        ELSE IF a[k] = 0 THEN NaN ELSE Inf(Sign(a[k]))]

\* enhanced_audio[pad_length:-pad_length]; a stop of -0 is index 0
Unpad(a, pad_length) ==
    IF pad_length = 0 \/ Len(a) < 2 * pad_length THEN << >>
    ELSE Slice(a, pad_length, Len(a) - pad_length)

\* PeakNormalize with the peak taken over the signed samples (np.max without
\* np.abs)
PeakNormalizeSigned(a) ==
    LET n == Len(a)
        hasNaN == \E k \in 1..n : a[k].k = "nan"
        hasInf == \E k \in 1..n : a[k].k = "inf"
        den == a[1].den
        S == {a[k].num * Sign(den) : k \in 1..n}
        peak == CHOOSE x \in S : \A y \in S : y <= x
    IN  IF hasNaN THEN a
        ELSE IF hasInf THEN [k \in 1..n |-> IF a[k].k = "inf" THEN NaN ELSE Fin(0, 1)]
        ELSE IF peak > 0
             THEN [k \in 1..n |-> Fin(TargetLevel * a[k].num * Sign(den), peak)]
             ELSE [k \in 1..n |-> a[k]]

\* lines 164-170: max_val = np.max(np.abs(a)); if max_val > 0 every sample is
\* multiplied by 0.95 / max_val.  np.max returns nan when a sample is nan, and
\* nan > 0 is false; 0.95 / inf is 0 and inf * 0 is nan
PeakNormalize(a) ==
    LET n == Len(a)
        hasNaN == \E k \in 1..n : a[k].k = "nan"
        hasInf == \E k \in 1..n : a[k].k = "inf"
        \* finite samples of one channel share the denominator num_overlaps
        den == a[1].den
        peak == MaxAbs([k \in 1..n |-> a[k].num])
    IN  IF hasNaN THEN a
        ELSE IF hasInf THEN [k \in 1..n |-> IF a[k].k = "inf" THEN NaN ELSE Fin(0, 1)]
        ELSE IF peak > 0
             THEN [k \in 1..n |-> Fin(TargetLevel * a[k].num * Sign(den), peak)]
             ELSE [k \in 1..n |-> Fin(0, 1)]

(***************************************************************************)
(* Inputs of the model.                                                    *)
(***************************************************************************)
Signals == UNION {[1..n -> Samples] : n \in 1..MaxLen}

Mono(s) == [stereo |-> FALSE, cols |-> <<s>>]

Stereo(l, r) == [stereo |-> TRUE, cols |-> <<l, r>>]

Audios == {Mono(s) : s \in Signals}
          \cup {Stereo(l, r) : l, r \in [1..MaxLen -> StereoSamples]}

\* the settings of AudioUpscaler.__init__, in tenths
Settings(in, hb, nr, db, cl) ==
    [intensity |-> in, harmonics_boost |-> hb, noise_reduction |-> nr,
     dynamic_boost |-> db, clarity_enhance |-> cl]

NoOpSettings == Settings(10, 0, 0, 10, FALSE)

IsNoOp(u) == /\ u.intensity = 10 /\ u.harmonics_boost = 0 /\ u.noise_reduction = 0
             /\ u.dynamic_boost = 10 /\ ~u.clarity_enhance /\ u.enhancer_chain = << >>

ProcessingSettings == {NoOpSettings, Settings(15, 3, 2, 10, TRUE), Settings(20, 0, 0, 10, FALSE)}

ProcessingKinds == {HarmonicEnhancer, TransientEnhancer}

ProcessingChains ==
    UNION {[1..n -> {NewEnhancer(c) : c \in ProcessingKinds}] : n \in 0..MaxChain}

\* AudioUpscaler.__init__: stores its arguments, validating none of them
AudioUpscaler(settings, enhancer_chain) ==
    [intensity |-> settings.intensity,
     harmonics_boost |-> settings.harmonics_boost,
     noise_reduction |-> settings.noise_reduction,
     dynamic_boost |-> settings.dynamic_boost,
     clarity_enhance |-> settings.clarity_enhance,
     enhancer_chain |-> enhancer_chain]

NoCall == [audio |-> Mono(<<0>>), sr |-> 0, frame_size |-> 0, hop_length |-> 0,
           progress_callback |-> FALSE]

NoResult == [kind |-> "none"]

Raised(exc) == [kind |-> "raised", exc |-> exc]

NoFile == [written |-> FALSE, data |-> << >>, sr |-> 0]

\* what librosa.load returns, or its failure
Decoded(audio, sr) == [ok |-> TRUE, audio |-> audio, sr |-> sr]

DecodeError == [ok |-> FALSE, audio |-> Mono(<<0>>), sr |-> 0]

\* no command has been given on the command line
NoCli == [status |-> "none", preset |-> << >>, save_preset |-> << >>, out |-> << >>]

(***************************************************************************)
(* Python values and their JSON text (json.dump / json.load).  Strings     *)
(* that the program takes apart (names, paths) are sequences of tokens.    *)
(***************************************************************************)
PyNone == [t |-> "NoneType", v |-> 0]
PyFloat(x) == [t |-> "float", v |-> x]
PyBool(b) == [t |-> "bool", v |-> b]
PyStr(x) == [t |-> "str", v |-> x]
PyList(x) == [t |-> "list", v |-> x]
PyDict(f) == [t |-> "dict", v |-> f]

\* json.dump: the JSON value written for a Python value
RECURSIVE json_dump(_)
json_dump(x) ==
    CASE x.t = "float" -> [j |-> "number", v |-> x.v]
      [] x.t = "bool"  -> [j |-> IF x.v THEN "true" ELSE "false", v |-> 0]
      [] x.t = "str"   -> [j |-> "string", v |-> x.v]
      [] x.t = "list"  -> [j |-> "array", v |-> [k \in 1..Len(x.v) |-> json_dump(x.v[k])]]
      [] x.t = "dict"  -> [j |-> "object", v |-> [k \in DOMAIN x.v |-> json_dump(x.v[k])]]

\* json.load: the Python value read from a JSON value
RECURSIVE json_load(_)
json_load(y) ==
    CASE y.j = "number" -> PyFloat(y.v)
      [] y.j = "true"   -> PyBool(TRUE)
      [] y.j = "false"  -> PyBool(FALSE)
      [] y.j = "string" -> PyStr(y.v)
      [] y.j = "array"  -> PyList([k \in 1..Len(y.v) |-> json_load(y.v[k])])
      [] y.j = "object" -> PyDict([k \in DOMAIN y.v |-> json_load(y.v[k])])

(***************************************************************************)
(* The preset store (utils/preset_manager.py) over the file system.        *)
(***************************************************************************)
\* os.path.expanduser("~/.audio_upscale/presets"): an absolute directory
PRESETS_DIR == <<"/", "presets">>

IsAbsolute(path) == path # << >> /\ path[1] = "/"

\* os.path.join(a, b): an absolute b discards a
PathJoin(a, b) == IF IsAbsolute(b) THEN b ELSE a \o <<"/">> \o b

get_preset_path(preset_name) == PathJoin(PRESETS_DIR, preset_name \o <<".json">>)

\* os.path.exists
Exists(fs, path) == path \in DOMAIN fs

\* open(path, 'w') and write
WriteFileAt(fs, path, text) ==
    [q \in DOMAIN fs \cup {path} |-> IF q = path THEN text ELSE fs[q]]

\* os.remove
RemoveFile(fs, path) == [q \in DOMAIN fs \ {path} |-> fs[q]]

Returned(x) == [raised |-> None, value |-> x]

Threw(exc) == [raised |-> exc, value |-> PyNone]

\* load_preset without the test for the file: open() raises for a missing
\* file
load_preset_unchecked(fs, preset_name) ==
    LET preset_path == get_preset_path(preset_name)
    IN  IF ~Exists(fs, preset_path) THEN Threw("FileNotFoundError")
        ELSE Returned(json_load(fs[preset_path]))

\* load_preset: the value returned or the exception raised
load_preset(fs, preset_name) ==
    LET preset_path == get_preset_path(preset_name)
    IN  IF ~Exists(fs, preset_path) THEN Threw("ValueError")
        ELSE Returned(json_load(fs[preset_path]))

\* save_preset: the file system afterwards
save_preset(fs, preset_name, preset_data) ==
    WriteFileAt(fs, get_preset_path(preset_name), json_dump(preset_data))

\* delete_preset: the value returned and the file system afterwards
delete_preset(fs, preset_name) ==
    LET preset_path == get_preset_path(preset_name)
    IN  IF ~Exists(fs, preset_path) THEN [ret |-> FALSE, fs |-> fs]
        ELSE [ret |-> TRUE, fs |-> RemoveFile(fs, preset_path)]

\* os.listdir(PRESETS_DIR): the names of the files directly in the directory
ListDir(fs, dir) ==
    {SubSeq(path, Len(dir) + 2, Len(path)) :
        path \in {q \in DOMAIN fs :
                     /\ Len(q) >= Len(dir) + 2
                     /\ SubSeq(q, 1, Len(dir) + 1) = dir \o <<"/">>
                     /\ \A k \in (Len(dir) + 2)..Len(q) : q[k] # "/"}}

\* list_presets: f.replace(".json", "") for the files f that end in ".json",
\* as a set (the order is that of os.listdir)
list_presets(fs) ==
    {SelectSeq(f, LAMBDA t : t # ".json") :
        f \in {g \in ListDir(fs, PRESETS_DIR) : g[Len(g)] = ".json"}}

NoOperation == [op |-> "none", name |-> << >>, arg |-> PyNone, res |-> Returned(PyNone)]

EmptyStore ==
    /\ files = << >>
    /\ lastop = NoOperation
    /\ nops = 0

(***************************************************************************)
(* The chain builder (enhancers/spectral.py).                              *)
(***************************************************************************)
\* get_available_enhancers: kind -> class
get_available_enhancers ==
    (<<"harmonic">> :> HarmonicEnhancer) @@ (<<"widener">> :> SpectralWidener)
    @@ (<<"exciter">> :> ExciterEnhancer) @@ (<<"transient">> :> TransientEnhancer)

\* create_enhancer_chain that stops at the first item of unknown kind
RECURSIVE CreateFromStop(_, _)
CreateFromStop(k, cfg) ==
    IF k > Len(cfg) THEN << >>
    ELSE LET name == cfg[k].v["name"].v
             available == get_available_enhancers
         IN  IF name \in DOMAIN available
             THEN <<NewEnhancer(available[name])>> \o CreateFromStop(k + 1, cfg)
             ELSE << >>

\* create_enhancer_chain on the items from index k on
RECURSIVE CreateFrom(_, _)
CreateFrom(k, cfg) ==
    IF k > Len(cfg) THEN << >>
    ELSE LET name == cfg[k].v["name"].v
             available == get_available_enhancers
         IN  IF name \in DOMAIN available
             THEN <<NewEnhancer(available[name])>> \o CreateFrom(k + 1, cfg)
             ELSE CreateFrom(k + 1, cfg)

\* create_enhancer_chain(config): the list returned; nothing is raised for
\* an item that has a name
create_enhancer_chain(cfg) == [raised |-> None, list |-> CreateFrom(1, cfg)]

EnhancerItem(name) == PyDict([k \in {"name"} |-> PyStr(name)])

NoChainCall ==
    /\ config = << >>
    /\ enhancers = [called |-> FALSE, raised |-> None, list |-> << >>]


(***************************************************************************)
(* The processing run: process_audio / process_file of one upscaler.       *)
(***************************************************************************)
\* no call is running
IdleRun ==
    /\ pc = "idle"
    /\ entry = None
    /\ call = NoCall
    /\ chan = 0
    /\ padded_audio = << >>
    /\ enhanced_audio = << >>
    /\ i = 0
    /\ nframes = 0
    /\ outputs = << >>
    /\ result = NoResult
    /\ outfile = NoFile
    /\ frame = << >>
    /\ stages = << >>
    /\ progress = << >>
    /\ cli = NoCli
    /\ ncalls = 0

InitAudio ==
    /\ upscaler \in {AudioUpscaler(st, ch) : st \in ProcessingSettings, ch \in ProcessingChains}
    /\ IdleRun
    /\ EmptyStore
    /\ NoChainCall

\* process_audio(audio_data, sr, frame_size, hop_length, progress_callback)
\* called directly; progress_callback is TRUE when a callback is supplied
process_audio(audio, sr, frame_size, hop_length, progress_callback) ==
    /\ pc = "idle"
    /\ cli.status = "none"
    /\ entry' = "process_audio"
    /\ call' = [audio |-> audio, sr |-> sr, frame_size |-> frame_size,
                hop_length |-> hop_length, progress_callback |-> progress_callback]
    /\ chan' = 1
    /\ pc' = "channel"
    /\ UNCHANGED <<upscaler, padded_audio, enhanced_audio, i, nframes, outputs,
                   result, outfile, svars, cvars, tvars, uvars>>

Raise(exc) ==
    /\ pc' = "raised"
    /\ result' = Raised(exc)

\* process_file, lines 186-199, up to its call of process_audio: a failure
\* of librosa.load is raised again as RuntimeError; otherwise the decoded
\* (mono) signal and its sample rate are passed on with frame_size, while
\* hop_length and progress_callback are not passed and take their defaults
ProcessFileStart(decoded, frame_size) ==
    /\ entry' = "process_file"
    /\ IF ~decoded.ok
       THEN /\ Raise("RuntimeError")
            /\ UNCHANGED <<call, chan>>
       ELSE /\ call' = [audio |-> decoded.audio, sr |-> decoded.sr,
                        frame_size |-> frame_size, hop_length |-> DefaultHopLength,
                        progress_callback |-> FALSE]
            /\ chan' = 1
            /\ pc' = "channel"
            /\ UNCHANGED result
    /\ UNCHANGED <<padded_audio, enhanced_audio, i, nframes, outputs, outfile, tvars>>

\* process_file(input_file, output_file, frame_size) called directly
process_file(decoded, frame_size) ==
    /\ pc = "idle"
    /\ cli.status = "none"
    /\ ProcessFileStart(decoded, frame_size)
    /\ UNCHANGED <<upscaler, svars, cvars, uvars>>

\* _process_channel, lines 136-145: pad, allocate, count the frames
PadChannel ==
    /\ pc = "channel"
    /\ LET channel_data == call.audio.cols[chan]
           pad_length == call.frame_size
       IN  IF pad_length < 0
           THEN /\ Raise("ValueError")
                /\ UNCHANGED <<padded_audio, enhanced_audio, i, nframes>>
           ELSE IF call.hop_length = 0
           THEN /\ Raise("ZeroDivisionError")
                /\ padded_audio' = ReflectPad(channel_data, pad_length)
                /\ enhanced_audio' = Zeros(Len(channel_data) + 2 * pad_length)
                /\ UNCHANGED <<i, nframes>>
           ELSE /\ padded_audio' = ReflectPad(channel_data, pad_length)
                /\ enhanced_audio' = Zeros(Len(channel_data) + 2 * pad_length)
                /\ i' = 0
                /\ nframes' = 0
                /\ pc' = "loop"
                /\ UNCHANGED result
    /\ progress' = << >>
    /\ UNCHANGED <<upscaler, entry, call, chan, outputs, outfile, frame, stages,
                   svars, cvars, uvars>>

\* total_frames, line 143 (hop_length # 0)
TotalFrames(padded_len, frame_size, hop_length) ==
    1 + PyFloorDiv(padded_len - frame_size, hop_length)

\* the value passed to progress_callback after the frame at offset i + hop
\* (the offset of the frame that follows)
ProgressValueNext(k, padded_len, frame_size, hop_length) ==
    [num |-> k + hop_length, den |-> padded_len - frame_size]

\* the value passed to progress_callback after the frame at offset i, line
\* 155: i / (len(padded_audio) - frame_size), as a fraction
ProgressValue(k, padded_len, frame_size, hop_length) ==
    [num |-> k, den |-> padded_len - frame_size]

\* one iteration of the frame loop, lines 146-155
FrameStep ==
    /\ pc = "loop"
    /\ InRange(i, Len(padded_audio) - call.frame_size, call.hop_length)
    /\ \E masks \in MaskChoices(upscaler.enhancer_chain, RfftLen(call.frame_size)) :
       \E fr \in {Slice(padded_audio, i, i + call.frame_size)} :
       \E r \in {ProcessFrame(fr, upscaler, masks)} :
         LET window == hann(call.frame_size)
         IN  /\ r.ok
             /\ upscaler' = [upscaler EXCEPT !.enhancer_chain = r.chain]
             /\ frame' = fr
             /\ stages' = r.stages
             /\ IF r.err # None
                THEN /\ Raise(r.err)
                     /\ UNCHANGED <<enhanced_audio, i, nframes, progress>>
                ELSE IF ~Broadcastable(Len(r.frame), Len(window))
                THEN /\ Raise("ValueError")
                     /\ UNCHANGED <<enhanced_audio, i, nframes, progress>>
                ELSE /\ enhanced_audio' =
                          [k \in 1..Len(enhanced_audio) |->
                             IF i < k /\ k <= i + call.frame_size
                             THEN enhanced_audio[k] + r.frame[k - i] * window[k - i]
                             ELSE enhanced_audio[k]]
                     /\ i' = i + call.hop_length
                     /\ nframes' = nframes + 1
                     /\ progress' =
                          IF call.progress_callback
                          THEN Append(progress,
                                      ProgressValue(i, Len(padded_audio), call.frame_size,
                                                    call.hop_length))
                          ELSE progress
                     /\ UNCHANGED <<pc, result>>
    /\ UNCHANGED <<entry, call, chan, padded_audio, outputs, outfile, svars, cvars, uvars>>

\* num_overlaps, line 158 (hop_length # 0)
NumOverlaps(frame_size, hop_length) == PyFloorDiv(frame_size, hop_length)

\* the channel _process_channel returns after the loop, lines 157-172
FinishedChannel(acc, frame_size, hop_length) ==
    LET num_overlaps == NumOverlaps(frame_size, hop_length)
    IN  PeakNormalize(Unpad(OverlapNormalize(acc, num_overlaps), frame_size))

\* end of the frame loop and of _process_channel; process_audio then runs
\* the next channel or returns the (column-stacked) result
FinishChannel ==
    /\ pc = "loop"
    /\ ~InRange(i, Len(padded_audio) - call.frame_size, call.hop_length)
    /\ IF Unpad(enhanced_audio, call.frame_size) = << >>
       THEN /\ Raise("ValueError")
            /\ UNCHANGED <<chan, outputs>>
       ELSE LET out == FinishedChannel(enhanced_audio, call.frame_size, call.hop_length)
            IN  /\ outputs' = Append(outputs, out)
                /\ IF chan < Len(call.audio.cols)
                   THEN /\ chan' = chan + 1
                        /\ pc' = "channel"
                        /\ UNCHANGED result
                   ELSE /\ UNCHANGED chan
                        /\ result' = [kind |-> "audio", stereo |-> call.audio.stereo,
                                      cols |-> outputs']
                        /\ pc' = IF entry = "process_file" THEN "write" ELSE "done"
    /\ UNCHANGED <<upscaler, entry, call, padded_audio, enhanced_audio, i, nframes,
                   outfile, svars, cvars, tvars, uvars>>

\* process_file that returns its statistics although sf.write failed
WriteFileIgnoringFailure(written) ==
    /\ pc = "write"
    /\ outfile' = IF written
                  THEN [written |-> TRUE, data |-> result.cols, sr |-> call.sr]
                  ELSE outfile
    /\ result' = [kind |-> "stats", sample_rate |-> call.sr,
                  frame_size |-> call.frame_size]
    /\ pc' = "done"
    /\ UNCHANGED <<upscaler, entry, call, chan, padded_audio, enhanced_audio, i,
                   nframes, outputs, svars, cvars, tvars, uvars>>

\* process_file, lines 201-216: sf.write writes the result and the
\* statistics are returned, or sf.write fails and its exception propagates
\* (the output file may then have been created, with nothing in it)
WriteFile(written) ==
    /\ pc = "write"
    /\ IF written
       THEN /\ outfile' = [written |-> TRUE, data |-> result.cols, sr |-> call.sr]
            /\ result' = [kind |-> "stats", sample_rate |-> call.sr,
                          frame_size |-> call.frame_size]
            /\ pc' = "done"
       ELSE /\ outfile' \in {outfile, [written |-> TRUE, data |-> << >>, sr |-> call.sr]}
            /\ Raise("LibsndfileError")
    /\ UNCHANGED <<upscaler, entry, call, chan, padded_audio, enhanced_audio, i,
                   nframes, outputs, svars, cvars, tvars, uvars>>

\* what librosa.load can give for the files of the model
DecodeOutcomes ==
    {DecodeError} \cup {Decoded(Mono(s), sr) : s \in Signals, sr \in SampleRates}

NextAudio ==
    \/ \E a \in Audios, sr \in SampleRates, f \in FrameSizes, h \in HopLengths,
          cb \in BOOLEAN :
          process_audio(a, sr, f, h, cb)
    \/ \E d \in DecodeOutcomes, f \in FrameSizes : process_file(d, f)
    \/ PadChannel
    \/ FrameStep
    \/ FinishChannel
    \/ \E written \in BOOLEAN : WriteFile(written)

SpecAudio == InitAudio /\ [][NextAudio]_vars

\* the same run with the upscaler in the no-op configuration
InitIdentity ==
    /\ upscaler = AudioUpscaler(NoOpSettings, << >>)
    /\ IdleRun
    /\ EmptyStore
    /\ NoChainCall

SpecIdentity == InitIdentity /\ [][NextAudio]_vars

(***************************************************************************)
(* Claims about the processing run.                                        *)
(***************************************************************************)
Terminated == pc \in {"done", "raised"}

ReturnedAudio == pc = "done" /\ result.kind \in {"audio", "stats"}

\* C1: in a stereo call every transient enhancer of the chain has empty
\* history (no stored previous magnitude) at the first frame of the left
\* channel and at the first frame of the right channel
C1_FreshStatePerChannel ==
    (pc = "loop" /\ call.audio.stereo /\ nframes = 0)
        => \A k \in 1..Len(upscaler.enhancer_chain) :
              upscaler.enhancer_chain[k].name = TransientEnhancer
                 => upscaler.enhancer_chain[k].prev_magnitudes = NoMags

\* C2: for a mono signal of n >= 1 samples, frame_size >= 1 and
\* hop_length >= 1 the call ends by returning a channel of exactly n samples,
\* and process_file writes n samples at the sample rate of the input
C2_LengthPreserved ==
    (Terminated /\ ~call.audio.stereo /\ call.frame_size >= 1 /\ call.hop_length >= 1)
        => /\ ReturnedAudio
           /\ Len(outputs[1]) = Len(call.audio.cols[1])
           /\ entry = "process_file"
                 => /\ outfile.written
                    /\ Len(outfile.data[1]) = Len(call.audio.cols[1])
                    /\ outfile.sr = call.sr
                    /\ result.sample_rate = call.sr

\* C3: when the call comes from process_file with frame size F, the hop
\* length used by the frame loop is F / 2
C3_DefaultHopIsHalfFrame ==
    (entry = "process_file" /\ pc = "loop")
        => 2 * call.hop_length = call.frame_size

\* C4: every sample of a channel returned by _process_channel has absolute
\* value at most 0.95; a channel with a non-zero sample has peak exactly
\* 0.95
C4_PeakAtMostTarget ==
    \A c \in 1..Len(outputs) :
        /\ \A k \in 1..Len(outputs[c]) :
              /\ outputs[c][k].k = "fin"
              /\ outputs[c][k].den > 0
              /\ Abs(outputs[c][k].num) <= TargetLevel * outputs[c][k].den
        /\ (\E k \in 1..Len(outputs[c]) : outputs[c][k].num # 0)
              => \E k \in 1..Len(outputs[c]) :
                    Abs(outputs[c][k].num) = TargetLevel * outputs[c][k].den

\* sum of the window values of the frames that cover position p (one-based)
\* of the padded channel of length len
RECURSIVE WindowSumFrom(_, _, _, _, _)
WindowSumFrom(off, p, len, frame_size, hop_length) ==
    IF ~(off < len - frame_size) THEN 0
    ELSE (IF off < p /\ p <= off + frame_size THEN hann(frame_size)[p - off] ELSE 0)
         + WindowSumFrom(off + hop_length, p, len, frame_size, hop_length)

\* the overlapped windows sum to the same non-zero value at every sample of
\* the unpadded region
ConstantOverlapAdd(n, frame_size, hop_length) ==
    /\ frame_size \in {2, 4}
    /\ hop_length >= 1
    /\ \A p \in (frame_size + 1)..(frame_size + n) :
          /\ WindowSumFrom(0, p, n + 2 * frame_size, frame_size, hop_length) # 0
          /\ WindowSumFrom(0, p, n + 2 * frame_size, frame_size, hop_length)
                = WindowSumFrom(0, frame_size + 1, n + 2 * frame_size, frame_size, hop_length)

\* C5 (as stated): with the no-op configuration every sample of the output
\* of process_audio is within a tight tolerance (0.05) of the input sample
C5_IdentityLaw ==
    (ReturnedAudio /\ IsNoOp(upscaler))
        => \A c \in 1..Len(outputs) : \A k \in 1..Len(outputs[c]) :
              /\ outputs[c][k].k = "fin"
              /\ outputs[c][k].den > 0
              /\ Abs(outputs[c][k].num - call.audio.cols[c][k] * outputs[c][k].den)
                    <= outputs[c][k].den

\* C5 (amended): with the no-op configuration and a framing whose overlapped
\* Hann windows sum to one value at every sample, every output sample is the
\* input sample times the normalisation gain 0.95 / peak(S) (the output is
\* S itself when S is silent or has peak 0.95)
C5_IdentityUpToPeakGain ==
    (ReturnedAudio /\ IsNoOp(upscaler)
       /\ ConstantOverlapAdd(Len(call.audio.cols[1]), call.frame_size, call.hop_length))
        => \A c \in 1..Len(outputs) : \A k \in 1..Len(outputs[c]) :
              /\ outputs[c][k].k = "fin"
              /\ outputs[c][k].den > 0
              /\ IF MaxAbs(call.audio.cols[c]) = 0
                 THEN outputs[c][k].num = 0
                 ELSE outputs[c][k].num * MaxAbs(call.audio.cols[c])
                         = TargetLevel * call.audio.cols[c][k] * outputs[c][k].den

\* a no-op run with 50% overlap has returned a signal whose peak is not 0.95
C5_Witness ==
    /\ ReturnedAudio /\ IsNoOp(upscaler)
    /\ call.frame_size = 4 /\ call.hop_length = 2
    /\ ConstantOverlapAdd(Len(call.audio.cols[1]), call.frame_size, call.hop_length)
    /\ MaxAbs(call.audio.cols[1]) = 10
    /\ Len(call.audio.cols[1]) = MaxLen
    /\ \E k \in 1..Len(outputs[1]) : outputs[1][k].num # 0

\* C6: a call with a frame size or hop length that is zero or negative
\* processes no frame and returns no output
C6_InvalidParameterRejected ==
    (pc # "idle" /\ (call.frame_size <= 0 \/ call.hop_length <= 0))
        => /\ nframes = 0
           /\ outputs = << >>
           /\ result.kind \in {"none", "raised"}

\* C15: with frame_size >= 1 and hop_length >= 1 the frames are processed at
\* the offsets 0, hop, 2 hop, ... in this order, and when the loop ends a
\* frame has been processed at every offset k * hop with k * hop + frame_size
\* <= padded length, so that the number of frames processed is the total
\* 1 + (padded length - frame_size) div hop announced to the progress bar
C15_FrameAtEveryOffset ==
    (pc = "loop" /\ call.frame_size >= 1 /\ call.hop_length >= 1)
        => /\ i = nframes * call.hop_length
           /\ ~InRange(i, Len(padded_audio) - call.frame_size, call.hop_length)
                 => /\ \A k \in 0..Len(padded_audio) :
                          k * call.hop_length + call.frame_size <= Len(padded_audio)
                             => k < nframes
                    /\ nframes = TotalFrames(Len(padded_audio), call.frame_size,
                                             call.hop_length)

\* C16: with frame_size >= 1 and hop_length >= 1 the divisor by which the
\* accumulated channel is divided after the loop is frame_size / hop_length
\* exactly and is not zero (every sample of the divided channel is finite)
C16_DivisorTracksHopRatio ==
    (pc = "loop" /\ call.frame_size >= 1 /\ call.hop_length >= 1
       /\ ~InRange(i, Len(padded_audio) - call.frame_size, call.hop_length))
        => LET d == NumOverlaps(call.frame_size, call.hop_length)
               divided == OverlapNormalize(enhanced_audio, d)
           IN  /\ d # 0
               /\ d * call.hop_length = call.frame_size
               /\ \A k \in 1..Len(divided) : divided[k].k = "fin"

(***************************************************************************)
(* Framing and progress reports: the run on a fresh upscaler whose frames  *)
(* are computed without choice.                                            *)
(***************************************************************************)
FramingSamples == {0, 10}

FramingAudios ==
    {Mono(s) : s \in UNION {[1..n -> FramingSamples] : n \in 1..MaxLen}}
    \cup {Stereo(l, r) : l, r \in {[k \in 1..MaxLen |-> 0], [k \in 1..MaxLen |-> 10 * (k % 2)]}}

FramingUpscalers ==
    {AudioUpscaler(NoOpSettings, << >>),
     AudioUpscaler(Settings(15, 3, 2, 10, TRUE), <<NewEnhancer(TransientEnhancer)>>)}

InitFraming ==
    /\ upscaler \in FramingUpscalers
    /\ IdleRun
    /\ EmptyStore
    /\ NoChainCall

NextFraming ==
    \/ \E a \in FramingAudios, sr \in SampleRates, f \in FrameSizes, h \in HopLengths,
          cb \in BOOLEAN :
          process_audio(a, sr, f, h, cb)
    \/ PadChannel
    \/ FrameStep
    \/ FinishChannel

SpecFraming == InitFraming /\ [][NextFraming]_vars

\* the frame loop of _process_channel from offset off on, lines 146-152,
\* without a progress callback: the accumulator and the upscaler after the
\* loop, or the exception raised (spectra of at most three bins, in which
\* no bin is boosted by the transient enhancer)
RECURSIVE FrameLoop(_, _, _, _, _, _)
FrameLoop(acc, off, padded, frame_size, hop_length, u) ==
    IF ~InRange(off, Len(padded) - frame_size, hop_length)
    THEN [err |-> None, acc |-> acc, u |-> u]
    ELSE LET r == ProcessFrame(Slice(padded, off, off + frame_size), u,
                               [k \in 1..Len(u.enhancer_chain) |-> {}])
             window == hann(frame_size)
             u2 == [u EXCEPT !.enhancer_chain = r.chain]
         IN  IF r.err # None THEN [err |-> r.err, acc |-> acc, u |-> u2]
             ELSE IF ~Broadcastable(Len(r.frame), Len(window))
             THEN [err |-> "ValueError", acc |-> acc, u |-> u2]
             ELSE FrameLoop([k \in 1..Len(acc) |->
                                IF off < k /\ k <= off + frame_size
                                THEN acc[k] + r.frame[k - off] * window[k - off]
                                ELSE acc[k]],
                            off + hop_length, padded, frame_size, hop_length, u2)

\* _process_channel(channel_data, sr, frame_size, hop_length) without a
\* progress callback, for frame_size >= 0 and hop_length # 0
ProcessChannel(channel_data, frame_size, hop_length, u) ==
    LET padded == ReflectPad(channel_data, frame_size)
        r == FrameLoop(Zeros(Len(padded)), 0, padded, frame_size, hop_length, u)
    IN  IF r.err # None THEN [err |-> r.err, out |-> << >>, u |-> r.u]
        ELSE IF Unpad(r.acc, frame_size) = << >>
        THEN [err |-> "ValueError", out |-> << >>, u |-> r.u]
        ELSE [err |-> None, out |-> FinishedChannel(r.acc, frame_size, hop_length), u |-> r.u]

\* process_audio(audio_data, sr, frame_size, hop_length) without a progress
\* callback: the channels returned, or the exception raised
RECURSIVE ProcessChannels(_, _, _, _, _)
ProcessChannels(c, cols, frame_size, hop_length, u) ==
    IF c > Len(cols) THEN [err |-> None, cols |-> << >>]
    ELSE LET r == ProcessChannel(cols[c], frame_size, hop_length, u)
         IN  IF r.err # None THEN [err |-> r.err, cols |-> << >>]
             ELSE LET rest == ProcessChannels(c + 1, cols, frame_size, hop_length, r.u)
                  IN  IF rest.err # None THEN rest
                      ELSE [err |-> None, cols |-> <<r.out>> \o rest.cols]

\* the upscaler before its first frame
FreshUpscaler(u) ==
    [u EXCEPT !.enhancer_chain =
        [k \in 1..Len(u.enhancer_chain) |-> NewEnhancer(u.enhancer_chain[k].name)]]

\* C13: a progress callback supplied to process_audio has been called once
\* for every frame processed in the channel, each time with a value v with
\* 0 <= v < 1, the values of one channel increase strictly, no call is made
\* without a callback, and the call returns (or raises) what the call
\* without a callback returns (or raises)
C13_ProgressCallback ==
    /\ ~call.progress_callback => progress = << >>
    /\ call.progress_callback =>
          /\ Len(progress) = nframes
          /\ \A j \in 1..Len(progress) :
                /\ progress[j].den > 0
                /\ 0 <= progress[j].num
                /\ progress[j].num < progress[j].den
          /\ \A j \in 2..Len(progress) :
                progress[j - 1].num * progress[j].den < progress[j].num * progress[j - 1].den
          /\ (Terminated /\ call.frame_size >= 0 /\ call.hop_length # 0) =>
                LET ref == ProcessChannels(1, call.audio.cols, call.frame_size,
                                           call.hop_length, FreshUpscaler(upscaler))
                IN  IF pc = "raised"
                    THEN ref.err = result.exc
                    ELSE /\ ref.err = None
                         /\ result.kind = "audio"
                         /\ result.cols = ref.cols

\* a stereo call with a callback has returned after more than one report in
\* the last channel
C13_Witness ==
    /\ pc = "done"
    /\ call.progress_callback
    /\ call.audio.stereo
    /\ Len(progress) >= 2
    /\ progress[1].num = 0
    /\ \E c \in 1..Len(outputs) : \E k \in 1..Len(outputs[c]) : outputs[c][k].num # 0

\* C17: when hop_length divides frame_size, at the end of the loop every
\* position of the unpadded region [frame_size, frame_size + n) of the
\* padded buffer lies inside exactly frame_size / hop_length of the frames
\* processed, which is the divisor applied to the accumulated output
C17_UniformCoverage ==
    (pc = "loop" /\ call.frame_size >= 1 /\ call.hop_length >= 1
       /\ call.frame_size % call.hop_length = 0
       /\ ~InRange(i, Len(padded_audio) - call.frame_size, call.hop_length))
        => LET n == Len(call.audio.cols[chan])
               \* frames processed that contain the zero-based position q
               covering(q) == {k \in 0..(nframes - 1) :
                                  /\ k * call.hop_length <= q
                                  /\ q < k * call.hop_length + call.frame_size}
           IN  /\ i = nframes * call.hop_length
               /\ Len(padded_audio) = n + 2 * call.frame_size
               /\ \A q \in call.frame_size..(call.frame_size + n - 1) :
                     /\ Cardinality(covering(q)) * call.hop_length = call.frame_size
                     /\ Cardinality(covering(q))
                           = NumOverlaps(call.frame_size, call.hop_length)

\* the loop has ended on a channel of full length with 50% overlap
C17_Witness ==
    /\ pc = "loop"
    /\ call.frame_size = 4 /\ call.hop_length = 2
    /\ Len(call.audio.cols[chan]) = MaxLen
    /\ ~InRange(i, Len(padded_audio) - call.frame_size, call.hop_length)
    /\ nframes >= 3

(***************************************************************************)
(* The chain builder applied to a configuration.                           *)
(***************************************************************************)
ConfigNames == DOMAIN get_available_enhancers \cup {<<"reverb">>, <<"spectral", "widener">>}

Configs == UNION {[1..n -> {EnhancerItem(nm) : nm \in ConfigNames}] : n \in 0..MaxConfig}

DefaultSettings == Settings(15, 3, 2, 12, TRUE)

InitChain ==
    /\ upscaler = AudioUpscaler(DefaultSettings, << >>)
    /\ IdleRun
    /\ EmptyStore
    /\ config \in Configs
    /\ enhancers = [called |-> FALSE, raised |-> None, list |-> << >>]

CreateChain ==
    /\ ~enhancers.called
    /\ enhancers' = [called |-> TRUE,
                     raised |-> create_enhancer_chain(config).raised,
                     list |-> create_enhancer_chain(config).list]
    /\ UNCHANGED <<upscaler, rvars, svars, config, tvars, uvars>>

NextChain == CreateChain

SpecChain == InitChain /\ [][NextChain]_vars

\* C7: create_enhancer_chain raises nothing for an entry of unknown kind and
\* returns exactly one enhancer per entry of a known kind, of the matching
\* variant, in the order of the configuration
C7_UnknownKindsSkipped ==
    enhancers.called =>
        LET kind(j) == config[j].v["name"].v
            known == {j \in 1..Len(config) :
                         kind(j) \in {<<"harmonic">>, <<"widener">>, <<"exciter">>, <<"transient">>}}
            variant(j) == CASE kind(j) = <<"harmonic">> -> <<"Harmonic", "Enhancer">>
                            [] kind(j) = <<"widener">> -> <<"Spectral", "Widener">>
                            [] kind(j) = <<"exciter">> -> <<"Exciter", "Enhancer">>
                            [] kind(j) = <<"transient">> -> <<"Transient", "Enhancer">>
            \* the k-th known entry
            nth(k) == CHOOSE j \in known : Cardinality({l \in known : l <= j}) = k
        IN  /\ enhancers.raised = None
            /\ Len(enhancers.list) = Cardinality(known)
            /\ \A k \in 1..Len(enhancers.list) : enhancers.list[k].name = variant(nth(k))

\* a chain was built from a configuration with an unknown kind between two
\* known kinds
C7_Witness ==
    /\ enhancers.called
    /\ Len(config) = 3
    /\ config[1].v["name"].v = <<"transient">>
    /\ config[2].v["name"].v = <<"reverb">>
    /\ config[3].v["name"].v = <<"widener">>
    /\ Len(enhancers.list) = 2

(***************************************************************************)
(* Operations on the preset store, by the library and by the command line. *)
(***************************************************************************)
PresetNames == {<<"a">>, <<"b">>, PRESETS_DIR \o <<"/", "a">>, <<"a", ".json">>}

\* AudioUpscaler.save_preset, line 226: e.name.lower().replace("enhancer", "")
LowerWord(w) ==
    CASE w = "Harmonic" -> "harmonic"
      [] w = "Spectral" -> "spectral"
      [] w = "Exciter" -> "exciter"
      [] w = "Transient" -> "transient"
      [] w = "Widener" -> "widener"
      [] w = "Enhancer" -> "enhancer"

SavedEnhancerName(e) ==
    LET lower == [k \in 1..Len(e.name) |-> LowerWord(e.name[k])]
    IN  SelectSeq(lower, LAMBDA w : w # "enhancer")

\* AudioUpscaler.save_preset, lines 220-227: the record handed to save_preset
PresetData(u) ==
    PyDict([k \in {"intensity", "harmonics_boost", "noise_reduction", "dynamic_boost",
                   "clarity_enhance", "enhancers"} |->
        CASE k = "intensity" -> PyFloat(u.intensity)
          [] k = "harmonics_boost" -> PyFloat(u.harmonics_boost)
          [] k = "noise_reduction" -> PyFloat(u.noise_reduction)
          [] k = "dynamic_boost" -> PyFloat(u.dynamic_boost)
          [] k = "clarity_enhance" -> PyBool(u.clarity_enhance)
          [] k = "enhancers" ->
                PyList([j \in 1..Len(u.enhancer_chain) |->
                           EnhancerItem(SavedEnhancerName(u.enhancer_chain[j]))])])

\* AudioUpscaler.from_preset, lines 234-246: the upscaler built from a loaded
\* record; a setting the record lacks takes the default of __init__
FromPresetData(d) ==
    LET enhancer_chain == IF "enhancers" \in DOMAIN d
                          THEN create_enhancer_chain(d["enhancers"].v).list
                          ELSE << >>
        arg(k, default) == IF k \in DOMAIN d THEN d[k].v ELSE default
    IN  AudioUpscaler(Settings(arg("intensity", DefaultSettings.intensity),
                               arg("harmonics_boost", DefaultSettings.harmonics_boost),
                               arg("noise_reduction", DefaultSettings.noise_reduction),
                               arg("dynamic_boost", DefaultSettings.dynamic_boost),
                               arg("clarity_enhance", DefaultSettings.clarity_enhance)),
                      enhancer_chain)

\* AudioUpscaler.from_preset(preset_name): the upscaler built, or the
\* exception of load_preset
from_preset(fs, preset_name) ==
    LET r == load_preset(fs, preset_name)
    IN  IF r.raised # None
        THEN [raised |-> r.raised, upscaler |-> AudioUpscaler(DefaultSettings, << >>)]
        ELSE [raised |-> None, upscaler |-> FromPresetData(r.value.v)]

PresetSettings == {DefaultSettings, Settings(20, 5, 1, 15, FALSE)}

AllClasses == {HarmonicEnhancer, SpectralWidener, ExciterEnhancer, TransientEnhancer}

PresetChains ==
    UNION {[1..n -> {NewEnhancer(c) : c \in AllClasses}] : n \in 0..MaxPresetChain}

\* records saved through preset_manager.save_preset directly
PresetDatas ==
    {PresetData(AudioUpscaler(NoOpSettings, <<NewEnhancer(TransientEnhancer)>>)),
     PyDict([k \in {"intensity"} |-> PyFloat(20)])}

InitPreset ==
    /\ upscaler \in {AudioUpscaler(st, ch) : st \in PresetSettings, ch \in PresetChains}
    /\ IdleRun
    /\ EmptyStore
    /\ NoChainCall

Op(op, name, arg, res) == [op |-> op, name |-> name, arg |-> arg, res |-> res]

\* preset_manager.save_preset(preset_name, preset_data)
SavePreset(preset_name, preset_data) ==
    /\ nops < MaxOps
    /\ files' = save_preset(files, preset_name, preset_data)
    /\ lastop' = Op("save_preset", preset_name, preset_data,
                    Returned(PyStr(get_preset_path(preset_name))))
    /\ nops' = nops + 1
    /\ UNCHANGED <<upscaler, rvars, cvars, tvars, uvars>>

\* preset_manager.load_preset(preset_name)
LoadPreset(preset_name) ==
    /\ nops < MaxOps
    /\ lastop' = Op("load_preset", preset_name, PyNone, load_preset(files, preset_name))
    /\ nops' = nops + 1
    /\ UNCHANGED <<upscaler, rvars, cvars, files, tvars, uvars>>

\* preset_manager.delete_preset(preset_name)
DeletePreset(preset_name) ==
    /\ nops < MaxOps
    /\ files' = delete_preset(files, preset_name).fs
    /\ lastop' = Op("delete_preset", preset_name, PyNone,
                    Returned(PyBool(delete_preset(files, preset_name).ret)))
    /\ nops' = nops + 1
    /\ UNCHANGED <<upscaler, rvars, cvars, tvars, uvars>>

\* preset_manager.list_presets()
ListPresets ==
    /\ nops < MaxOps
    /\ lastop' = Op("list_presets", << >>, PyNone,
                    Returned([t |-> "list", v |-> list_presets(files)]))
    /\ nops' = nops + 1
    /\ UNCHANGED <<upscaler, rvars, cvars, files, tvars, uvars>>

\* AudioUpscaler.save_preset(preset_name)
UpscalerSavePreset(preset_name) ==
    /\ nops < MaxOps
    /\ files' = save_preset(files, preset_name, PresetData(upscaler))
    /\ lastop' = Op("AudioUpscaler.save_preset", preset_name, PresetData(upscaler),
                    Returned(PyStr(get_preset_path(preset_name))))
    /\ nops' = nops + 1
    /\ UNCHANGED <<upscaler, rvars, cvars, tvars, uvars>>

\* AudioUpscaler.from_preset(preset_name): the upscaler it returns replaces
\* the current one; the ValueError of load_preset propagates
FromPreset(preset_name) ==
    /\ nops < MaxOps
    /\ LET r == from_preset(files, preset_name)
       IN  IF r.raised # None
           THEN /\ lastop' = Op("from_preset", preset_name, PyNone, Threw(r.raised))
                /\ UNCHANGED upscaler
           ELSE /\ lastop' = Op("from_preset", preset_name, PyNone, Returned(PyNone))
                /\ upscaler' = r.upscaler
    /\ nops' = nops + 1
    /\ UNCHANGED <<rvars, cvars, files, tvars, uvars>>

\* the module namespace of cli.py: each import and each definition binds its
\* name, in source order; a later binding replaces an earlier one
CliGlobals ==
    << <<"AudioUpscaler", "core.upscaler.AudioUpscaler">>,
       <<"get_enhancer_params", "core.upscaler.get_enhancer_params">>,
       <<"get_available_enhancers", "enhancers.get_available_enhancers">>,
       <<"create_enhancer_chain", "enhancers.create_enhancer_chain">>,
       <<"list_presets", "preset_manager.list_presets">>,
       <<"load_preset", "preset_manager.load_preset">>,
       <<"save_preset", "preset_manager.save_preset">>,
       <<"delete_preset", "preset_manager.delete_preset">>,
       <<"get_preset_info", "preset_manager.get_preset_info">>,
       <<"list_enhancers", "cli.list_enhancers">>,
       <<"cli", "click group cli">>,
       <<"upscale", "click command upscale">>,
       <<"list_available_enhancers", "click command list_available_enhancers">>,
       <<"enhancer_info", "click command enhancer_info">>,
       <<"show_presets", "click command show_presets">>,
       <<"show_preset", "click command show_preset">>,
       <<"delete_preset", "click command delete_preset">>,
       <<"visualize", "click command visualize">> >>

\* the object a global name of cli.py refers to when a command runs
CliGlobal(name) ==
    LET bound == {k \in 1..Len(CliGlobals) : CliGlobals[k][1] = name}
        last == CHOOSE k \in bound : \A l \in bound : l <= k
    IN  CliGlobals[last][2]

\* number of characters of a token
TokenLen(t) ==
    CASE t \in {"/", "a", "b"} -> 1
      [] t = ".json" -> 5
      [] t = "presets" -> 7

RECURSIVE StrLen(_)
StrLen(x) == IF x = << >> THEN 0 ELSE TokenLen(Head(x)) + StrLen(Tail(x))

\* calling the click command delete_preset with a string: click takes the
\* string for the argument list, one argument per character.  A single
\* character is the preset name of a new invocation of the same callback,
\* which calls the command again, without end; any other number of
\* arguments is a usage error, on which click exits the process
ClickCommandCall(preset_name) ==
    IF StrLen(preset_name) = 1 /\ preset_name # <<"/">> /\ preset_name[1] \in {"a", "b"}
    THEN Threw("RecursionError")
    ELSE Threw("SystemExit")

\* the command line command delete-preset (cli.py lines 189-197)
CliDeletePreset(preset_name) ==
    /\ nops < MaxOps
    /\ IF CliGlobal("delete_preset") = "preset_manager.delete_preset"
       THEN LET success == delete_preset(files, preset_name).ret
            IN  /\ files' = delete_preset(files, preset_name).fs
                /\ lastop' = Op("cli delete-preset", preset_name, PyNone,
                                Returned(PyStr(IF success THEN <<"deleted">>
                                               ELSE <<"not found">>)))
       ELSE /\ files' = files
            /\ lastop' = Op("cli delete-preset", preset_name, PyNone,
                            ClickCommandCall(preset_name))
    /\ nops' = nops + 1
    /\ UNCHANGED <<upscaler, rvars, cvars, tvars, uvars>>

NextPreset ==
    \/ \E n \in PresetNames, d \in PresetDatas : SavePreset(n, d)
    \/ \E n \in PresetNames : LoadPreset(n)
    \/ \E n \in PresetNames : DeletePreset(n)
    \/ \E n \in PresetNames : UpscalerSavePreset(n)
    \/ \E n \in PresetNames : FromPreset(n)
    \/ \E n \in PresetNames : CliDeletePreset(n)
    \/ ListPresets

SpecPreset == InitPreset /\ [][NextPreset]_vars

(***************************************************************************)
(* The command line command upscale (cli.py lines 50-100), without the     *)
(* visualisation it can add at the end.                                    *)
(***************************************************************************)
\* the options of one invocation; an option that is not given, or given as
\* the empty string, is the empty name
CliOptions(preset, enhancer_names, save_name, settings, frame_size) ==
    [preset |-> preset, enhancers |-> enhancer_names, save_preset |-> save_name,
     settings |-> settings, frame_size |-> frame_size]

\* lines 66-72: one call of create_enhancer_chain per name of --enhancers
RECURSIVE CliEnhancerChain(_)
CliEnhancerChain(names) ==
    IF names = << >> THEN << >>
    ELSE create_enhancer_chain(<<EnhancerItem(Head(names))>>).list
         \o CliEnhancerChain(Tail(names))

\* upscale up to its call of process_file, lines 54-91
CliUpscale(opts, decoded) ==
    /\ pc = "idle"
    /\ cli.status = "none"
    /\ LET fp == from_preset(files, opts.preset)
           built == IF opts.preset # << >> THEN fp.upscaler
                    ELSE AudioUpscaler(opts.settings, CliEnhancerChain(opts.enhancers))
           loading == IF opts.preset # << >> THEN <<"Loading preset">> ELSE << >>
           adding == IF opts.preset = << >>
                     THEN [k \in 1..Len(opts.enhancers) |-> "Adding enhancer"]
                     ELSE << >>
           saved == IF opts.save_preset # << >> THEN <<"Saved preset">> ELSE << >>
           report(status, out) == [status |-> status, preset |-> opts.preset,
                                   save_preset |-> opts.save_preset, out |-> out]
       IN  IF opts.preset # << >> /\ fp.raised = "ValueError"
           THEN \* except ValueError: the message is printed and the command returns
                /\ cli' = report("ended", loading \o <<"Error: preset not found">>)
                /\ UNCHANGED <<upscaler, rvars, files, tvars>>
           ELSE IF opts.preset # << >> /\ fp.raised # None
           THEN \* any other exception leaves the command
                /\ cli' = report("crashed", loading)
                /\ UNCHANGED <<upscaler, rvars, files, tvars>>
           ELSE /\ upscaler' = built
                /\ files' = IF opts.save_preset # << >>
                            THEN save_preset(files, opts.save_preset, PresetData(built))
                            ELSE files
                /\ cli' = report("running", loading \o adding \o saved)
                /\ ProcessFileStart(decoded, opts.frame_size)
    /\ UNCHANGED <<lastop, nops, cvars, ncalls>>

\* upscale after process_file, lines 92-100: an exception of process_file
\* is printed, otherwise the statistics are
CliUpscaleEnd ==
    /\ cli.status = "running"
    /\ pc \in {"done", "raised"}
    /\ cli' = [cli EXCEPT !.status = "ended",
                          !.out = Append(@, IF pc = "raised" THEN "Error processing file"
                                            ELSE "Total processing time")]
    /\ UNCHANGED <<upscaler, rvars, svars, cvars, tvars, ncalls>>

\* --dynamic-boost 1.0, the other settings at their defaults
CliSettings == Settings(15, 3, 2, 10, TRUE)

CliFrameSizes == {2, 3, 4}

CliOptionSets ==
    {CliOptions(p, e, sv, CliSettings, f) :
        p \in {<< >>, <<"a">>, <<"b">>},
        e \in {<< >>, <<<<"transient">>, <<"reverb">>>>},
        sv \in {<< >>, <<"b">>},
        f \in CliFrameSizes}

CliDecodeOutcomes ==
    {DecodeError} \cup {Decoded(Mono(s), sr) : s \in {<<10>>, <<0, 10>>}, sr \in SampleRates}

\* the preset directory before the command: empty, or after a save_preset
CliStores ==
    {<< >>,
     save_preset(<< >>, <<"a">>,
                 PresetData(AudioUpscaler(NoOpSettings, <<NewEnhancer(TransientEnhancer)>>)))}

InitCli ==
    /\ upscaler = AudioUpscaler(DefaultSettings, << >>)
    /\ IdleRun
    /\ files \in CliStores
    /\ lastop = NoOperation
    /\ nops = 0
    /\ NoChainCall

NextCli ==
    \/ \E opts \in CliOptionSets, d \in CliDecodeOutcomes : CliUpscale(opts, d)
    \/ PadChannel
    \/ FrameStep
    \/ FinishChannel
    \/ \E written \in BOOLEAN : WriteFile(written)
    \/ CliUpscaleEnd

SpecCli == InitCli /\ [][NextCli]_vars

\* C11: load_preset and AudioUpscaler.from_preset raise the not-found error
\* (ValueError) for a name that has no preset in the store, and an upscale
\* command given such a name prints the error and ends without an uncaught
\* exception, having processed no audio, written no output file and saved
\* no preset
C11_UnknownPresetIsFatal ==
    [][(cli.status = "none" /\ cli'.status # "none" /\ cli'.preset # << >>
          /\ ~Exists(files, get_preset_path(cli'.preset)))
          => /\ load_preset(files, cli'.preset).raised = "ValueError"
             /\ from_preset(files, cli'.preset).raised = "ValueError"
             /\ cli'.status = "ended"
             /\ cli'.out[Len(cli'.out)] = "Error: preset not found"
             /\ pc' = "idle"
             /\ nframes' = 0
             /\ frame' = << >>
             /\ outputs' = << >>
             /\ result' = NoResult
             /\ ~outfile'.written
             /\ files' = files]_vars

\* an upscale command that asked for a missing preset, and for the settings
\* to be saved, has ended while another preset is stored
C11_Witness ==
    /\ cli.status = "ended"
    /\ cli.preset = <<"b">>
    /\ cli.save_preset = <<"b">>
    /\ ~Exists(files, get_preset_path(<<"b">>))
    /\ Exists(files, get_preset_path(<<"a">>))
    /\ pc = "idle"

\* C12: process_file returns its statistics only when the output file has
\* been written with the processed audio; a failure of the decoder is raised
\* to the caller before any frame is processed and before anything is
\* written, a failure of the encoder is raised to the caller, the command
\* line reports either as an error, and after the failure the run does
\* nothing more (no retry)
C12_FileFailureIsFatal ==
    [][/\ (entry' = "process_file" /\ result'.kind = "stats")
            => /\ outfile'.written
               /\ outfile'.data = outputs'
       /\ (entry' = "process_file" /\ pc' = "raised" /\ call' = NoCall)
            => /\ result' = Raised("RuntimeError")
               /\ nframes' = 0
               /\ frame' = << >>
               /\ outputs' = << >>
               /\ outfile' = NoFile
       /\ (pc = "write" /\ pc' = "raised")
            => /\ result' = Raised("LibsndfileError")
               /\ outfile'.data = << >>
       /\ (pc' = "raised" /\ cli'.status = "ended")
            => cli'.out[Len(cli'.out)] = "Error processing file"
       /\ pc = "raised" => rvars' = rvars]_vars

\* the command line has reported a failure of the decoder
C12_Witness ==
    /\ cli.status = "ended"
    /\ entry = "process_file"
    /\ pc = "raised"
    /\ call = NoCall
    /\ result = Raised("RuntimeError")
    /\ cli.out[Len(cli.out)] = "Error processing file"

(***************************************************************************)
(* Claims about the preset store.                                          *)
(***************************************************************************)
\* a step of the specification is one preset operation
OpStep == nops' = nops + 1

SameLoad(fs1, fs2, n) ==
    /\ load_preset(fs1, n).raised = load_preset(fs2, n).raised
    /\ load_preset(fs1, n).raised = None
          => load_preset(fs1, n).value = load_preset(fs2, n).value

\* C8: after save_preset(name, config) load_preset(name) returns config, and
\* a save or delete of one name leaves what load_preset returns for every
\* other name unchanged (so the saved configuration is returned until the
\* name itself is saved again or deleted)
C8_PresetRoundTrip ==
    [][(OpStep /\ lastop'.op \in {"save_preset", "AudioUpscaler.save_preset", "delete_preset"})
          => /\ lastop'.op # "delete_preset"
                  => /\ load_preset(files', lastop'.name).raised = None
                     /\ load_preset(files', lastop'.name).value = lastop'.arg
             /\ \A n \in PresetNames \ {lastop'.name} : SameLoad(files', files, n)]_vars

\* C9: an upscaler saved with AudioUpscaler.save_preset(name) and rebuilt
\* with AudioUpscaler.from_preset(name) has the same five settings and an
\* enhancer chain of the same kinds in the same order
C9_UpscalerRoundTrip ==
    [][(OpStep /\ lastop.op = "AudioUpscaler.save_preset"
          /\ lastop'.op = "from_preset" /\ lastop'.name = lastop.name)
          => /\ lastop'.res.raised = None
             /\ upscaler'.intensity = upscaler.intensity
             /\ upscaler'.harmonics_boost = upscaler.harmonics_boost
             /\ upscaler'.noise_reduction = upscaler.noise_reduction
             /\ upscaler'.dynamic_boost = upscaler.dynamic_boost
             /\ upscaler'.clarity_enhance = upscaler.clarity_enhance
             /\ Len(upscaler'.enhancer_chain) = Len(upscaler.enhancer_chain)
             /\ \A k \in 1..Len(upscaler.enhancer_chain) :
                   upscaler'.enhancer_chain[k].name = upscaler.enhancer_chain[k].name]_vars

\* C10: a deletion, by preset_manager.delete_preset or by the command line,
\* of a name that is not stored reports not-found without raising and leaves
\* the store unchanged; a deletion of a stored name reports success and
\* removes exactly the file of that preset
C10_DeleteReportsOutcome ==
    [][(OpStep /\ lastop'.op \in {"delete_preset", "cli delete-preset"})
          => LET path == get_preset_path(lastop'.name)
                 stored == Exists(files, path)
             IN  /\ lastop'.res.raised = None
                 /\ lastop'.op = "delete_preset" => lastop'.res.value = PyBool(stored)
                 /\ lastop'.op = "cli delete-preset"
                       => lastop'.res.value = PyStr(IF stored THEN <<"deleted">>
                                                    ELSE <<"not found">>)
                 /\ DOMAIN files' = DOMAIN files \ {path}
                 /\ \A q \in DOMAIN files' : files'[q] = files[q]]_vars

\* C14: list_presets returns no name for the empty store; after a save of a
\* name it returns the names it returned before and that name, as given;
\* after a delete_preset of a name it returns the names it returned before
\* without that name; no other operation changes what it returns
C14_ListIsSavedNotDeleted ==
    [][OpStep =>
          /\ nops = 0 => list_presets(files) = {}
          /\ list_presets(files') =
                IF lastop'.op \in {"save_preset", "AudioUpscaler.save_preset"}
                THEN list_presets(files) \cup {lastop'.name}
                ELSE IF lastop'.op = "delete_preset"
                THEN list_presets(files) \ {lastop'.name}
                ELSE list_presets(files)]_vars


(***************************************************************************)
(* Direct calls of _process_frame on one upscaler.                         *)
(***************************************************************************)
MaxCalls == 2

FrameSamples == {-19, 10}

\* frames of one to four samples whose spectrum has real bins only, and the
\* empty frame
Frames ==
    {<< >>} \cup {f \in UNION {[1..n -> FrameSamples] : n \in 1..4} : AllReal(rfft(f))}

FrameSettings ==
    {Settings(15, hb, nr, db, cl) :
        hb \in {0, 3}, nr \in {0, 2}, db \in {10, 20}, cl \in BOOLEAN}

InitFrame ==
    /\ upscaler \in {AudioUpscaler(st, ch) : st \in FrameSettings, ch \in ProcessingChains}
    /\ IdleRun
    /\ EmptyStore
    /\ NoChainCall

\* upscaler._process_frame(fr) called directly, lines 45-96: the frame it
\* returns or the exception it raises
ProcessFrameCall(fr) ==
    /\ pc = "idle"
    /\ cli.status = "none"
    /\ ncalls < MaxCalls
    /\ \E masks \in MaskChoices(upscaler.enhancer_chain, RfftLen(Len(fr))) :
       \E r \in {ProcessFrame(fr, upscaler, masks)} :
             /\ r.ok
             /\ upscaler' = [upscaler EXCEPT !.enhancer_chain = r.chain]
             /\ frame' = fr
             /\ stages' = r.stages
             /\ result' = IF r.err # None THEN Raised(r.err)
                          ELSE [kind |-> "frame", frame |-> r.frame]
    /\ ncalls' = ncalls + 1
    /\ UNCHANGED <<pc, entry, call, chan, padded_audio, enhanced_audio, i, nframes,
                   outputs, outfile, progress, cli, svars, cvars>>

NextFrame == \E fr \in Frames : ProcessFrameCall(fr)

SpecFrame == InitFrame /\ [][NextFrame]_vars

\* the built-in stages that are enabled, in the order of the specification
EnabledBuiltin(u) ==
    (IF u.noise_reduction > 0 THEN <<"noise_floor">> ELSE << >>)
    \o (IF u.harmonics_boost > 0 THEN <<"harmonic_boost">> ELSE << >>)
    \o <<"intensity">>
    \o (IF u.dynamic_boost # 10 THEN <<"dynamic_range">> ELSE << >>)
    \o (IF u.clarity_enhance THEN <<"clarity">> ELSE << >>)

\* C18: a call of _process_frame on a non-empty frame runs exactly the
\* enabled built-in stages in the order noise floor, harmonic boost,
\* intensity, dynamic range, clarity (intensity always), then the enhancers
\* of the chain in list order, then the synthesis; the first stage reads the
\* spectrum of the frame and every later stage reads what the stage that ran
\* before it left, so that a disabled stage changes nothing
C18_StageOrder ==
    (ncalls > 0 /\ frame # << >>) =>
        LET builtin == EnabledBuiltin(upscaler)
            b == Len(builtin)
            n == Len(stages)
        IN  /\ n > b
            /\ \A k \in 1..b :
                  /\ stages[k].stage = builtin[k]
                  /\ stages[k].out = StageOutput(builtin[k], stages[k].in, upscaler)
            /\ stages[1].in = rfft(frame)
            /\ \A k \in 2..n : stages[k].in = stages[k - 1].out
            /\ \A k \in (b + 1)..n :
                  \/ /\ stages[k].stage = "enhancer"
                     /\ stages[k].idx = k - b
                     /\ k - b <= Len(upscaler.enhancer_chain)
                     /\ stages[k].name = upscaler.enhancer_chain[k - b].name
                  \/ /\ stages[k].stage = "synthesis"
                     /\ k = n
                     /\ k - b = Len(upscaler.enhancer_chain) + 1
            /\ result.kind = "frame" =>
                  /\ stages[n].stage = "synthesis"
                  /\ result.frame = irfft(stages[n].in)
            /\ stages[n].stage # "synthesis" => stages[n].raised # None

\* C18 witness: a call on a frame of four samples in which all five
\* built-in stages, an enhancer and the synthesis ran
C18_Witness ==
    /\ ncalls > 0
    /\ Len(frame) = 4
    /\ Len(stages) = 7
    /\ result.kind = "frame"
    /\ \E k \in 1..5 : stages[k].stage = "clarity" /\ stages[k].in[1].re # 0


(***************************************************************************)
(* Direct calls of apply_enhancer_chain on the chain of one upscaler,      *)
(* followed by a processing run of that upscaler.                          *)
(***************************************************************************)
MaxEnhancers == 2

\* numbers of bins of the arrays handed to the chain
SpectrumLengths == {1, 2, 3, 4}

EnhancerChains ==
    UNION {[1..n -> {NewEnhancer(c) : c \in ProcessingKinds}] : n \in 0..MaxEnhancers}

\* magnitude arrays of one to four bins with phase 0: all ones, or a last
\* bin that stands out
Spectra ==
    {[k \in 1..n |-> Bin(IF k = n THEN top ELSE 1, 0, 1)] : n \in SpectrumLengths, top \in {1, 8}}

EnhancerAudios ==
    {Mono(s) : s \in [1..MaxLen -> FrameSamples]} \cup {Stereo(<<0, 10>>, <<10, 0>>)}

EnhancerFrameSizes == {2, 4}

InitEnhancers ==
    /\ upscaler \in {AudioUpscaler(NoOpSettings, ch) : ch \in EnhancerChains}
    /\ IdleRun
    /\ EmptyStore
    /\ NoChainCall

\* apply_enhancer_chain(magnitudes, phases, upscaler.enhancer_chain) called
\* directly, lines 232-252: the pair it returns or the exception it raises
ApplyEnhancerChainCall(X) ==
    /\ pc = "idle"
    /\ cli.status = "none"
    /\ ncalls < MaxCalls
    /\ \E masks \in MaskChoices(upscaler.enhancer_chain, Len(X)) :
       \E r \in {apply_enhancer_chain(X, upscaler.enhancer_chain, masks)} :
             /\ r.ok
             /\ upscaler' = [upscaler EXCEPT !.enhancer_chain = r.chain]
             /\ frame' = X
             /\ stages' = r.calls
             /\ result' = IF r.err # None THEN Raised(r.err)
                          ELSE [kind |-> "spectrum", X |-> r.X]
    /\ ncalls' = ncalls + 1
    /\ UNCHANGED <<pc, entry, call, chan, padded_audio, enhanced_audio, i, nframes,
                   outputs, outfile, progress, cli, svars, cvars>>

NextEnhancers ==
    \/ \E X \in Spectra : ApplyEnhancerChainCall(X)
    \/ \E a \in EnhancerAudios, sr \in SampleRates, f \in EnhancerFrameSizes :
          process_audio(a, sr, f, 2, FALSE)
    \/ PadChannel
    \/ FrameStep
    \/ FinishChannel

SpecEnhancers == InitEnhancers /\ [][NextEnhancers]_vars

\* the calls of enhancers among the stages of a trace
EnhancerCalls(trace) == SelectSeq(trace, LAMBDA e : e.stage = "enhancer")

\* the step is a direct call of apply_enhancer_chain
ChainCalled == ncalls' = ncalls + 1

\* the step is one iteration of the frame loop of a run
FrameProcessed ==
    /\ pc = "loop"
    /\ InRange(i, Len(padded_audio) - call.frame_size, call.hop_length)
    /\ vars' # vars

\* C19: a call of apply_enhancer_chain calls the enhancers of the chain once
\* each in list order, enhancer k + 1 on the pair enhancer k returned, and
\* returns what the last one returned (its inputs when the chain is empty);
\* an exception of an enhancer ends the call with that exception, no later
\* enhancer being called, and a run in which that happens raises, returns
\* no output and takes no further step
C19_ChainInOrder ==
    [][/\ (ChainCalled \/ FrameProcessed) =>
            LET calls == EnhancerCalls(stages')
                chain == upscaler.enhancer_chain
                n == Len(calls)
            IN  /\ n <= Len(chain)
                /\ \A k \in 1..n :
                      /\ calls[k].idx = k
                      /\ calls[k].name = chain[k].name
                      /\ k > 1 => calls[k].in = calls[k - 1].out
                      /\ k < n => calls[k].raised = None
                /\ (n < Len(chain)) => (n > 0 /\ calls[n].raised # None)
                /\ ChainCalled =>
                      /\ n > 0 => calls[1].in = frame'
                      /\ result' = IF n > 0 /\ calls[n].raised # None
                                   THEN Raised(calls[n].raised)
                                   ELSE [kind |-> "spectrum",
                                         X |-> IF n = 0 THEN frame' ELSE calls[n].out]
                /\ (FrameProcessed /\ n > 0 /\ calls[n].raised # None) =>
                      /\ pc' = "raised"
                      /\ result' = Raised(calls[n].raised)
                      /\ outputs' = outputs
                      /\ stages'[Len(stages')] = calls[n]
       /\ pc = "raised" => FALSE]_vars

\* C19 witness: a direct call on a chain of two enhancers in which the
\* second one was handed a pair that the first one had changed
C19_Witness ==
    /\ ncalls > 0
    /\ pc = "idle"
    /\ Len(stages) = 2
    /\ stages[1].out # stages[1].in
    /\ stages[2].in = stages[1].out
    /\ result.kind = "spectrum"

\* the history of the transient enhancer called in a stage entry
HistoryOf(u, e) == u.enhancer_chain[e.idx].prev_magnitudes

\* C20: a call of a TransientEnhancer without history returns its input
\* unchanged; after every call that returns, the stored history is the
\* magnitude sequence that call received (not the boosted one it returned);
\* and when a frame after the first of a channel is processed, the history
\* is what the enhancer received for the frame before it
C20_HistoryIsLastInput ==
    [][(ChainCalled \/ FrameProcessed) =>
          \A k \in DOMAIN stages' :
             LET e == stages'[k]
             IN  (e.stage = "enhancer" /\ e.name = TransientEnhancer) =>
                    /\ e.fresh = (HistoryOf(upscaler, e) = NoMags)
                    /\ e.fresh => (e.out = e.in /\ e.raised = None)
                    /\ e.raised = None => HistoryOf(upscaler', e) = e.in
                    /\ e.raised # None => HistoryOf(upscaler', e) = HistoryOf(upscaler, e)
                    /\ (FrameProcessed /\ nframes >= 1) =>
                          \E m \in DOMAIN stages :
                             /\ stages[m].stage = "enhancer"
                             /\ stages[m].idx = e.idx
                             /\ HistoryOf(upscaler, e) = stages[m].in]_vars

\* C20 witness: a transient enhancer that boosted a bin of the magnitudes
\* it received and stored them as received
C20_Witness ==
    \E k \in DOMAIN stages :
       /\ stages[k].stage = "enhancer"
       /\ stages[k].name = TransientEnhancer
       /\ stages[k].raised = None
       /\ stages[k].out # stages[k].in
       /\ HistoryOf(upscaler, stages[k]) = stages[k].in


(***************************************************************************)
(* Direct calls of the process method of one TransientEnhancer made with   *)
(* given parameters.                                                       *)
(***************************************************************************)
\* TransientEnhancer(sensitivity, attack_boost), lines 153-163
NewTransient(sensitivity, attack_boost) ==
    [name |-> TransientEnhancer, prev_magnitudes |-> NoMags,
     sensitivity |-> sensitivity, attack_boost |-> attack_boost]

\* sensitivities in tenths (1 + sensitivity * 5 is negative, zero, positive)
Sensitivities == {-5, -2, 0, 5}

AttackBoosts == {-1, 0, 2}

\* spectra of one or two bins, real bins of either phase and an imaginary one
TransientSpectra ==
    UNION {[1..n -> {Bin(1, 0, 1), Bin(-1, 0, 1), Bin(8, 0, 1), Bin(0, 2, 1)}] : n \in 1..2}

InitTransient ==
    /\ upscaler \in {AudioUpscaler(NoOpSettings, <<NewTransient(sn, ab)>>) :
                        sn \in Sensitivities, ab \in AttackBoosts}
    /\ IdleRun
    /\ EmptyStore
    /\ NoChainCall

\* upscaler.enhancer_chain[1].process(magnitudes, phases) called directly,
\* lines 165-191: the pair it returns or the exception it raises
TransientCall(X) ==
    /\ pc = "idle"
    /\ cli.status = "none"
    /\ ncalls < MaxCalls
    /\ \E mask \in SUBSET (1..Len(X)) :
       \E e \in {upscaler.enhancer_chain[1]} :
       \E r \in {TransientProcessWith(e, X, mask, e.sensitivity, e.attack_boost)} :
             /\ r.ok
             /\ upscaler' = [upscaler EXCEPT !.enhancer_chain = <<r.e>>]
             /\ frame' = X
             /\ stages' = Append(stages,
                                 StageEntry("enhancer", 1, e.name, e.prev_magnitudes = NoMags,
                                            X, r.X, r.err))
             /\ result' = IF r.err # None THEN Raised(r.err)
                          ELSE [kind |-> "spectrum", X |-> r.X]
    /\ ncalls' = ncalls + 1
    /\ UNCHANGED <<pc, entry, call, chan, padded_audio, enhanced_audio, i, nframes,
                   outputs, outfile, progress, cli, svars, cvars>>

NextTransient == \E X \in TransientSpectra : TransientCall(X)

SpecTransient == InitTransient /\ [][NextTransient]_vars

\* two spectra with the same magnitude in every bin
SameMagnitudes(X, Y) ==
    /\ Len(X) = Len(Y)
    /\ \A k \in 1..Len(X) : MagSq(X[k]) = MagSq(Y[k])

\* C21: a call of a TransientEnhancer with the magnitudes that the call
\* before it received flags no bin and returns the pair unchanged, whatever
\* the sensitivity and the attack boost of the enhancer
C21_IdenticalFramesNoTransient ==
    \A k \in 2..Len(stages) :
       (stages[k - 1].raised = None /\ SameMagnitudes(stages[k - 1].in, stages[k].in)) =>
          /\ stages[k].raised = None
          /\ stages[k].out = stages[k].in

\* C21 witness: a second call with the magnitudes of the first (in another
\* phase) on an enhancer whose boost would change them, returned unchanged
C21_Witness ==
    /\ Len(stages) >= 2
    /\ stages[1].in # stages[2].in
    /\ SameMagnitudes(stages[1].in, stages[2].in)
    /\ ~stages[2].fresh
    /\ stages[2].out = stages[2].in
    /\ upscaler.enhancer_chain[1].attack_boost = 2
    /\ upscaler.enhancer_chain[1].sensitivity = -5


(***************************************************************************)
(* Direct calls of _process_frame on upscalers made with any intensity     *)
(* (the dynamic range adjustment is left off where the intensity is        *)
(* negative).                                                              *)
(***************************************************************************)
MagnitudeSettings ==
    {Settings(in, hb, nr, db, cl) :
        in \in {-10, 0, 15}, hb \in {0, 3}, nr \in {0, 2}, db \in {10, 20}, cl \in BOOLEAN}

InitMagnitude ==
    /\ upscaler \in {AudioUpscaler(st, ch) :
                        st \in {t \in MagnitudeSettings :
                                   t.intensity < 0 => t.dynamic_boost = 10},
                        ch \in ProcessingChains}
    /\ IdleRun
    /\ EmptyStore
    /\ NoChainCall

SpecMagnitude == InitMagnitude /\ [][NextFrame]_vars

\* the magnitude of bin Y is not negative: no stage changes the phase, which
\* is that of the bin X of the spectrum of the frame, so that the magnitude
\* is the real factor by which Y is a multiple of X
NonNegativeMagnitude(Y, X) == Y.re * X.re >= 0 /\ Y.im * X.im >= 0

\* C22: every magnitude of the spectrum that _process_frame hands to the
\* synthesis is non-negative
C22_MagnitudesNonNegative ==
    (ncalls > 0 /\ result.kind = "frame") =>
        \A k \in 1..Len(stages[1].in) :
           NonNegativeMagnitude(stages[Len(stages)].in[k], stages[1].in[k])

====
